---- MODULE Spec2Model ----
(***************************************************************************)
(* Model of server.js: an Express backend that keeps four collections      *)
(* (menu, orders, reservations, customers) as JSON files and serves them   *)
(* through nine routes.  Every handler is an async function; each awaited  *)
(* file-system call (fs.access, fs.readFile, fs.writeFile) is one atomic   *)
(* step, and the synchronous code between two awaits runs with the step    *)
(* that precedes it.  Requests interleave at the awaits.                   *)
(***************************************************************************)
EXTENDS Integers, Sequences, FiniteSets, TLC

\* ------------------------------------------------------------------ bounds
\* Number of requests the server receives in one behaviour.
MaxRequests == 2
\* Largest value the wall clock (Date.now()) reaches.
MaxClock == 2

Procs == 1..MaxRequests

\* ------------------------------------------------------------ program data
Files == {"menu", "orders", "reservations", "customers"}

Routes == {"getMenu", "signup", "orders", "reservations", "updateMenu",
           "getCustomers", "exportOrders", "exportReservations",
           "exportCustomers"}

menuFilePath == "menu"
ordersFilePath == "orders"
reservationsFilePath == "reservations"
customersFilePath == "customers"

\* The file each route's handler passes to readData / writeData.
FileOf(r) ==
    CASE r \in {"getMenu", "updateMenu"} -> menuFilePath
      [] r \in {"orders", "exportOrders"} -> ordersFilePath
      [] r \in {"reservations", "exportReservations"} -> reservationsFilePath
      [] r \in {"signup", "getCustomers", "exportCustomers"} -> customersFilePath

\* The literal compared with req.body.password.
Secret == "themomchef@123"

\* The value of a property an object does not have.
Undefined == "<undefined>"

\* obj.k for an object held as a record.
Get(obj, k) == IF k \in DOMAIN obj THEN obj[k] ELSE Undefined

\* new Date().toISOString() of the clock value t.
ISO(t) == <<"ISO", t>>

\* ------------------------------------------------------------ file content
\* A path either has no file, or holds text: the empty string, text that
\* JSON.parse rejects, or the JSON text of a value.
Absent == [kind |-> "absent", val |-> <<>>]
EmptyText == [kind |-> "empty", val |-> <<>>]
Corrupt == [kind |-> "corrupt", val |-> <<>>]

\* Whether obj.k is undefined.  The number- and date-valued properties of
\* this program's objects are always set.
IsUndefined(obj, k) ==
    /\ k \notin {"id", "date", "signupDate"}
    /\ obj[k] = Undefined

\* What JSON.stringify keeps of one object: properties whose value is
\* undefined are omitted.
StripUndefined(obj) ==
    LET keep == {k \in DOMAIN obj : ~IsUndefined(obj, k)}
    IN  [k \in keep |-> obj[k]]

\* JSON.stringify(data, null, 2) of an array of objects.
JSONstringify(arr) ==
    [kind |-> "json", val |-> [i \in 1..Len(arr) |-> StripUndefined(arr[i])]]

\* JSON.parse(text) of text that parses.
JSONparse(text) == text.val

\* ------------------------------------------------------------------ inputs
Dal == [name |-> "Dal"]
Roti == [name |-> "Roti"]
Menus == {<<>>, <<Dal>>, <<Roti, Dal>>}

SignupBodies ==
    { [name |-> "Asha", email |-> "a@x.com", password |-> "pw"],
      [name |-> "Bina", email |-> "b@x.com", id |-> 0, signupDate |-> ISO(0)],
      [name |-> "Anon"] }

OrderBodies ==
    { [item |-> "dal"],
      [item |-> "roti", id |-> 0, date |-> ISO(0)] }

UpdateBodies ==
    { [password |-> Secret, menu |-> m] : m \in Menus }
    \cup { [password |-> "wrong", menu |-> <<Dal>>],
           [menu |-> <<Dal>>],
           [password |-> Secret] }

EmptyBody == [none |-> TRUE]

BodiesOf(r) ==
    CASE r = "signup" -> SignupBodies
      [] r \in {"orders", "reservations"} -> OrderBodies
      [] r = "updateMenu" -> UpdateBodies
      [] OTHER -> {EmptyBody}

\* ------------------------------------------------------------------- state
VARIABLES
    files,   \* path -> content on disk
    clock,   \* Date.now()
    pc,      \* request -> the await its handler is suspended at
    route,   \* request -> its route
    body,    \* request -> req.body
    data,    \* request -> the array its handler holds (customers, orders, ...)
    newRec,  \* request -> newCustomer / newOrder / newReservation
    now,     \* request -> the clock value its handler took
    resp,    \* request -> the response it sent
    version, \* path -> how many writeFile calls on it have completed
    seen,    \* request -> the version of its file that readData returned
    wrote    \* request -> the version of its file that its save produced

vars == <<files, clock, pc, route, body, data, newRec, now, resp,
          version, seen, wrote>>

NoRec == [none |-> TRUE]
NoResp == [status |-> 0, message |-> "", payload |-> <<>>]
Response(s, m, x) == [status |-> s, message |-> m, payload |-> x]

\* The condition the collections' storage starts in, the same for the four
\* files (no handler touches two files).  Text that does not parse is what
\* an interrupted overwrite leaves behind.
InitialContents == {Absent, EmptyText, Corrupt}

Init ==
    /\ \E c \in InitialContents : files = [f \in Files |-> c]
    /\ clock = 1
    /\ pc = [p \in Procs |-> "idle"]
    /\ route = [p \in Procs |-> "none"]
    /\ body = [p \in Procs |-> EmptyBody]
    /\ data = [p \in Procs |-> <<>>]
    /\ newRec = [p \in Procs |-> NoRec]
    /\ now = [p \in Procs |-> 0]
    /\ resp = [p \in Procs |-> NoResp]
    /\ version = [f \in Files |-> 0]
    /\ seen = [p \in Procs |-> 0]
    /\ wrote = [p \in Procs |-> 0]

\* ----------------------------------------------------------------- helpers
\* An insertion at the front of the array (unshift).
pushFront(arr, x) == <<x>> \o arr

\* arr.push(x).
push(arr, x) == Append(arr, x)

\* A find that compares names, not emails.
existingCustomerByName(customers, email) ==
    \E i \in 1..Len(customers) : Get(customers[i], "name") = email

\* customers.find(customer => customer.email === email), as a truth value.
existingCustomer(customers, email) ==
    \E i \in 1..Len(customers) : Get(customers[i], "email") = email

CustomerFields == {"name", "email", "phone", "street", "city", "state",
                   "pincode", "dob"}

\* A customer built the way orders are: the body's properties spread last.
newCustomerSpread(b, t) ==
    [k \in CustomerFields \cup {"id", "signupDate"} |->
        IF k \in DOMAIN b THEN b[k]
        ELSE CASE k = "id" -> t
               [] k = "signupDate" -> ISO(t)
               [] OTHER -> Undefined]

\* { id: Date.now(), name, email, ..., dob, signupDate: new Date().toISOString() }
newCustomer(b, t) ==
    [k \in CustomerFields \cup {"id", "signupDate"} |->
        CASE k = "id" -> t
          [] k = "signupDate" -> ISO(t)
          [] OTHER -> Get(b, k)]

\* { id: Date.now(), date: new Date().toISOString(), ...req.body }
newOrder(b, t) ==
    LET gen == [id |-> t, date |-> ISO(t)]
    IN  [k \in DOMAIN gen \cup DOMAIN b |->
            IF k \in DOMAIN b THEN b[k] ELSE gen[k]]

\* new Parser().parse(records): a header row and one row per record.
ToCsv(arr) ==
    [header |-> UNION {DOMAIN arr[i] : i \in 1..Len(arr)}, rows |-> arr]

ErrorMessage(r) ==
    CASE r = "getMenu" -> "Error loading menu"
      [] r = "signup" -> "Failed to register customer."
      [] r = "orders" -> "Failed to save order"
      [] r = "reservations" -> "Failed to save reservation"
      [] r = "updateMenu" -> "Failed to update menu"
      [] r = "getCustomers" -> "Error loading customers"
      [] r = "exportOrders" -> "Failed to export orders."
      [] r = "exportReservations" -> "Failed to export reservations."
      [] r = "exportCustomers" -> "Failed to export customers."

NothingToExport(r) ==
    CASE r = "exportOrders" -> "No orders to export."
      [] r = "exportReservations" -> "No reservations to export."
      [] r = "exportCustomers" -> "No customers to export."

\* The handler's catch block: a 500 with the route's static message.
Fail(p) ==
    /\ resp' = [resp EXCEPT ![p] = Response(500, ErrorMessage(route[p]), <<>>)]
    /\ pc' = [pc EXCEPT ![p] = "done"]
    /\ UNCHANGED <<data, newRec, now>>

\* The handler's code from the return of readData(filePath), which gave
\* arr, up to its next await or its response.
AfterLoad(p, arr) ==
    LET r == route[p] IN
    CASE r \in {"getMenu", "getCustomers"} ->
            /\ resp' = [resp EXCEPT ![p] = Response(200, "", arr)]
            /\ pc' = [pc EXCEPT ![p] = "done"]
            /\ UNCHANGED <<data, newRec, now>>
      [] r = "signup" ->
            IF existingCustomer(arr, Get(body[p], "email"))
            THEN /\ resp' = [resp EXCEPT ![p] = Response(400,
                        "A customer with this email already exists.", <<>>)]
                 /\ pc' = [pc EXCEPT ![p] = "done"]
                 /\ UNCHANGED <<data, newRec, now>>
            ELSE /\ now' = [now EXCEPT ![p] = clock]
                 /\ newRec' = [newRec EXCEPT ![p] = newCustomer(body[p], clock)]
                 /\ data' = [data EXCEPT ![p] = push(arr, newCustomer(body[p], clock))]
                 /\ pc' = [pc EXCEPT ![p] = "write"]
                 /\ UNCHANGED resp
      [] r \in {"orders", "reservations"} ->
            /\ data' = [data EXCEPT ![p] = push(arr, newRec[p])]
            /\ pc' = [pc EXCEPT ![p] = "write"]
            /\ UNCHANGED <<newRec, now, resp>>
      [] r \in {"exportOrders", "exportReservations", "exportCustomers"} ->
            /\ resp' = [resp EXCEPT ![p] =
                    IF Len(arr) = 0
                    THEN Response(200, NothingToExport(r), <<>>)
                    ELSE Response(200, "text/csv", ToCsv(arr))]
            /\ pc' = [pc EXCEPT ![p] = "done"]
            /\ UNCHANGED <<data, newRec, now>>

\* ----------------------------------------------------------------- actions
\* A check that lets a body without a password through.
AuthorizedIfGiven(b) == "password" \in DOMAIN b => b.password = Secret

\* !(password !== "themomchef@123")
Authorized(b) == Get(b, "password") = Secret

\* A request arrives and its handler runs up to its first await.  Requests
\* are numbered in order of arrival.  A handler reads and writes only the file
\* of its route, so the requests of one behaviour are taken to address one
\* collection: a behaviour over several collections is a product of these.
Receive(p, r, b) ==
    /\ pc[p] = "idle"
    /\ \A q \in Procs : q < p => pc[q] # "idle"
    /\ \A q \in Procs : pc[q] # "idle" => FileOf(route[q]) = FileOf(r)
    /\ route' = [route EXCEPT ![p] = r]
    /\ body' = [body EXCEPT ![p] = b]
    /\ UNCHANGED <<files, clock, version, seen, wrote>>
    /\ CASE r = "updateMenu" ->
              IF ~Authorized(b)
              THEN /\ resp' = [resp EXCEPT ![p] = Response(401, "Unauthorized", <<>>)]
                   /\ pc' = [pc EXCEPT ![p] = "done"]
                   /\ UNCHANGED <<data, newRec, now>>
              ELSE IF "menu" \notin DOMAIN b
              THEN \* JSON.stringify(undefined) is undefined, which
                   \* fs.writeFile rejects before it opens the file.
                   /\ resp' = [resp EXCEPT ![p] = Response(500, ErrorMessage(r), <<>>)]
                   /\ pc' = [pc EXCEPT ![p] = "done"]
                   /\ UNCHANGED <<data, newRec, now>>
              ELSE /\ data' = [data EXCEPT ![p] = b.menu]
                   /\ pc' = [pc EXCEPT ![p] = "write"]
                   /\ UNCHANGED <<newRec, now, resp>>
         [] r \in {"orders", "reservations"} ->
              /\ now' = [now EXCEPT ![p] = clock]
              /\ newRec' = [newRec EXCEPT ![p] = newOrder(b, clock)]
              /\ pc' = [pc EXCEPT ![p] = "access"]
              /\ UNCHANGED <<data, resp>>
         [] OTHER ->
              /\ pc' = [pc EXCEPT ![p] = "access"]
              /\ UNCHANGED <<data, newRec, now, resp>>

\* readData: await fs.access(filePath).
Access(p) ==
    /\ pc[p] = "access"
    /\ pc' = [pc EXCEPT ![p] =
            IF files[FileOf(route[p])].kind = "absent" THEN "initwrite" ELSE "readfile"]
    /\ UNCHANGED <<files, clock, route, body, data, newRec, now, resp,
                   version, seen, wrote>>

\* A parse that takes text it cannot read for no text at all.
ReadOutcomeLenient(text) ==
    CASE text.kind = "absent" -> "ENOENT"
      [] text.kind = "json" -> "parsed"
      [] OTHER -> "empty"

\* What readFile and JSON.parse make of a file's content: ENOENT, the empty
\* string, a SyntaxError, or a value.
ReadOutcome(text) ==
    CASE text.kind = "absent" -> "ENOENT"
      [] text.kind = "empty" -> "empty"
      [] text.kind = "corrupt" -> "SyntaxError"
      [] text.kind = "json" -> "parsed"

\* readData: await fs.readFile(filePath, 'utf8'), then the parse and the
\* handler's continuation.
ReadFile(p) ==
    /\ pc[p] = "readfile"
    /\ LET text == files[FileOf(route[p])] IN
       CASE ReadOutcome(text) = "ENOENT" ->
               /\ pc' = [pc EXCEPT ![p] = "initwrite"]
               /\ UNCHANGED <<data, newRec, now, resp>>
         [] ReadOutcome(text) = "empty" -> AfterLoad(p, <<>>)
         [] ReadOutcome(text) = "SyntaxError" -> Fail(p)
         [] ReadOutcome(text) = "parsed" -> AfterLoad(p, JSONparse(text))
    /\ seen' = [seen EXCEPT ![p] = version[FileOf(route[p])]]
    /\ UNCHANGED <<files, clock, route, body, version, wrote>>

\* readData's catch of ENOENT: await writeData(filePath, []); return [].
InitWrite(p) ==
    /\ pc[p] = "initwrite"
    /\ files' = [files EXCEPT ![FileOf(route[p])] = JSONstringify(<<>>)]
    /\ AfterLoad(p, <<>>)
    /\ version' = [version EXCEPT ![FileOf(route[p])] = @ + 1]
    /\ seen' = [seen EXCEPT ![p] = version[FileOf(route[p])] + 1]
    /\ UNCHANGED <<clock, route, body, wrote>>

SuccessResponse(p) ==
    CASE route[p] = "signup" ->
            Response(201, "Customer registered successfully!", StripUndefined(newRec[p]))
      [] route[p] = "orders" ->
            Response(201, "Order received!", StripUndefined(newRec[p]))
      [] route[p] = "reservations" ->
            Response(201, "Reservation received!", StripUndefined(newRec[p]))
      [] route[p] = "updateMenu" ->
            Response(200, "Menu updated successfully!", <<>>)

\* A save that appends the new record to what the file holds now.
SavedOntoCurrent(p) ==
    LET text == files[FileOf(route[p])] IN
    IF route[p] # "updateMenu" /\ text.kind = "json"
    THEN JSONstringify(push(JSONparse(text), newRec[p]))
    ELSE JSONstringify(data[p])

\* What writeData(filePath, data) puts in the file: the handler's array.
Saved(p) == JSONstringify(data[p])

\* The handler's await writeData(filePath, data), then its response.
Write(p) ==
    /\ pc[p] = "write"
    /\ files' = [files EXCEPT ![FileOf(route[p])] = Saved(p)]
    /\ version' = [version EXCEPT ![FileOf(route[p])] = @ + 1]
    /\ wrote' = [wrote EXCEPT ![p] = version[FileOf(route[p])] + 1]
    /\ resp' = [resp EXCEPT ![p] = SuccessResponse(p)]
    /\ pc' = [pc EXCEPT ![p] = "done"]
    /\ UNCHANGED <<clock, route, body, data, newRec, now, seen>>

\* The wall clock advances.
Tick ==
    /\ clock < MaxClock
    /\ clock' = clock + 1
    /\ UNCHANGED <<files, pc, route, body, data, newRec, now, resp,
                   version, seen, wrote>>

Next ==
    \/ \E p \in Procs : \E r \in Routes : \E b \in BodiesOf(r) : Receive(p, r, b)
    \/ \E p \in Procs : Access(p)
    \/ \E p \in Procs : ReadFile(p)
    \/ \E p \in Procs : InitWrite(p)
    \/ \E p \in Procs : Write(p)
    \/ Tick

Spec == Init /\ [][Next]_vars

\* Requests served one after another: a request arrives only when no other
\* is in flight.
ReceiveAlone(p, r, b) ==
    /\ \A q \in Procs : pc[q] \in {"idle", "done"}
    /\ Receive(p, r, b)

NextSeq ==
    \/ \E p \in Procs : \E r \in Routes : \E b \in BodiesOf(r) : ReceiveAlone(p, r, b)
    \/ \E p \in Procs : Access(p)
    \/ \E p \in Procs : ReadFile(p)
    \/ \E p \in Procs : InitWrite(p)
    \/ \E p \in Procs : Write(p)
    \/ Tick

SpecSeq == Init /\ [][NextSeq]_vars


\* ------------------------------------------------------------- properties
\* What readData returns for a file whose content is text and parses, is
\* empty, or is absent when the whole load runs at once.
LoadResult(text) == IF text.kind = "json" THEN JSONparse(text) ELSE <<>>

AppendRoutes == {"signup", "orders", "reservations"}
LoadRoutes == Routes \ {"updateMenu"}
Customers == files[customersFilePath]

\* The step in which request p leaves the await named at.
Leaves(p, at) == pc[p] = at /\ pc'[p] # at

\* C1: an order or reservation acknowledged with 201 carries the id and date
\* the handler generated, in the response and in the array it saved, whatever
\* id or date the body carried.
C1_GeneratedKeysWin ==
    \A p \in Procs :
        (route[p] \in {"orders", "reservations"} /\ resp[p].status = 201) =>
            /\ resp[p].payload.id = now[p]
            /\ resp[p].payload.date = ISO(now[p])
            /\ data[p][Len(data[p])].id = now[p]
            /\ data[p][Len(data[p])].date = ISO(now[p])

\* C2: the stored customers collection never holds two records with the same
\* email, under every interleaving of the signups' loads and saves.
C2_UniqueEmails ==
    Customers.kind = "json" =>
        \A i, j \in 1..Len(Customers.val) :
            i # j => Get(Customers.val[i], "email") # Get(Customers.val[j], "email")

\* Two overlapping signups with the same email were both acknowledged.
C2_Witness ==
    \E p, q \in Procs :
        /\ p # q
        /\ route[p] = "signup" /\ route[q] = "signup"
        /\ resp[p].status = 201 /\ resp[q].status = 201
        /\ Get(body[p], "email") = Get(body[q], "email")
        /\ seen[p] = seen[q]

\* C3: a signup that loads a collection already holding its email answers 400
\* in that step, makes no save and leaves every file as it was.
C3_DuplicateRejected ==
    [][\A p \in Procs :
        ( /\ route[p] = "signup"
          /\ Leaves(p, "readfile")
          /\ Customers.kind = "json"
          /\ \E i \in 1..Len(Customers.val) :
                Get(Customers.val[i], "email") = Get(body[p], "email") )
        => /\ resp'[p].status = 400
           /\ pc'[p] = "done"
           /\ files' = files
           /\ version' = version]_vars

C3_Witness ==
    \E p \in Procs :
        /\ route[p] = "signup"
        /\ resp[p].status = 400
        /\ Customers.kind = "json"
        /\ Len(Customers.val) = 1

\* C4: an update-menu whose password is not the secret, or is missing,
\* answers 401 on arrival; no file is read or written and the handler never
\* reaches an await.
C4_UnauthorizedNoEffect ==
    [][\A p \in Procs :
        ( /\ Leaves(p, "idle")
          /\ route'[p] = "updateMenu"
          /\ Get(body'[p], "password") # Secret )
        => /\ resp'[p].status = 401
           /\ pc'[p] = "done"
           /\ files' = files
           /\ version' = version]_vars

C4_Witness ==
    \E p \in Procs :
        /\ route[p] = "updateMenu"
        /\ "password" \notin DOMAIN body[p]
        /\ resp[p].status = 401
        /\ files[menuFilePath].kind = "json"

\* C5: with requests served one after another, a signup whose email is not in
\* the stored collection goes on to save, and its save leaves the collection as
\* it was followed by one new record, acknowledged with 201, whose id and
\* signupDate are the clock value the handler took, never the body's.
C5_SignupAppendsOne ==
    [][\A p \in Procs :
        /\ ( /\ route[p] = "signup"
             /\ (Leaves(p, "readfile") \/ Leaves(p, "initwrite"))
             /\ Customers.kind # "corrupt"
             /\ \A i \in 1..Len(LoadResult(Customers)) :
                    Get(LoadResult(Customers)[i], "email") # Get(body[p], "email") )
           => /\ pc'[p] = "write"
              /\ now'[p] = clock
        /\ ( /\ route[p] = "signup"
             /\ Leaves(p, "write") )
           => /\ resp'[p].status = 201
              /\ Customers'.kind = "json"
              /\ Len(Customers'.val) = Len(LoadResult(Customers)) + 1
              /\ SubSeq(Customers'.val, 1, Len(LoadResult(Customers))) = LoadResult(Customers)
              /\ Customers'.val[Len(Customers'.val)] = resp'[p].payload
              /\ resp'[p].payload.id = now[p]
              /\ resp'[p].payload.signupDate = ISO(now[p])
              /\ Get(resp'[p].payload, "email") = Get(body[p], "email")
              /\ Get(resp'[p].payload, "name") = Get(body[p], "name")
              /\ "password" \notin DOMAIN resp'[p].payload]_vars

\* A signup whose body carried an id was appended to a non-empty collection.
C5_Witness ==
    \E p \in Procs :
        /\ route[p] = "signup"
        /\ "id" \in DOMAIN body[p]
        /\ resp[p].status = 201
        /\ Customers.kind = "json"
        /\ Len(Customers.val) = 2

\* The requests received so far, in order of arrival.
Started == {p \in Procs : pc[p] # "idle"}

\* Every request so far was a signup, all with different emails, all answered,
\* on a store that began absent or empty.
DistinctSignups ==
    /\ Customers.kind # "corrupt"
    /\ \A p \in Started : route[p] = "signup" /\ pc[p] = "done"
    /\ \A p, q \in Started : p # q => Get(body[p], "email") # Get(body[q], "email")

OneRecordPerRequest ==
    /\ \A p \in Started : resp[p].status = 201
    /\ Customers.kind = "json"
    /\ Len(Customers.val) = Cardinality(Started)
    /\ \A p \in Started :
          /\ Customers.val[p] = resp[p].payload
          /\ Get(Customers.val[p], "email") = Get(body[p], "email")
          /\ Customers.val[p].id = now[p]

\* C6 as stated: sequential signups with distinct emails all succeed and leave
\* one record per request, in request order, with pairwise distinct ids.
C6_DistinctIds ==
    (DistinctSignups /\ Started # {}) =>
        /\ OneRecordPerRequest
        /\ \A p, q \in Started : p # q => Customers.val[p].id # Customers.val[q].id

\* C6 amended: sequential signups with distinct emails all succeed and leave
\* one record per request, in request order, with ids that never decrease in
\* that order.
C6_OrderedIds ==
    (DistinctSignups /\ Started # {}) =>
        /\ OneRecordPerRequest
        /\ \A p, q \in Started : p < q => Customers.val[p].id <= Customers.val[q].id

\* a@x.com then b@x.com were signed up one after the other.
C6_Witness ==
    /\ DistinctSignups
    /\ {1, 2} \subseteq Started
    /\ Get(body[1], "email") = "a@x.com"
    /\ Get(body[2], "email") = "b@x.com"
    /\ Len(Customers.val) = 2

\* C7: once an update-menu with menu M has answered 200, and until another
\* update-menu saves, the stored menu is M: what a GET /api/menu arriving
\* from then on reads.
C7_MenuReplaced ==
    \A p \in Procs :
        ( /\ route[p] = "updateMenu"
          /\ resp[p].status = 200
          /\ \A q \in Procs \ {p} : route[q] = "updateMenu" => wrote[q] < wrote[p] )
        => /\ files[menuFilePath].kind = "json"
           /\ LoadResult(files[menuFilePath]) = body[p].menu

\* C8: the write of [] that readData makes for a file it found absent never
\* changes content that a request saved in the meantime: when the file exists
\* by the time of that write, the write leaves its content as it is.
C8_InitNeverOverwrites ==
    [][\A p \in Procs :
        LET f == FileOf(route[p]) IN
        (Leaves(p, "initwrite") /\ files[f].kind # "absent") => files'[f] = files[f]]_vars

\* C9: a handler that loads a file whose text does not parse answers 500 in
\* that step and saves nothing; the file keeps its content.
C9_CorruptGives500 ==
    [][\A p \in Procs :
        LET f == FileOf(route[p]) IN
        /\ (Leaves(p, "access") /\ files[f].kind = "corrupt") => pc'[p] = "readfile"
        /\ (Leaves(p, "readfile") /\ files[f].kind = "corrupt")
           => /\ route[p] \in LoadRoutes
              /\ resp'[p].status = 500
              /\ pc'[p] = "done"
              /\ files' = files
              /\ version' = version]_vars

C9_Witness ==
    \E p, q \in Procs :
        /\ route[p] = "orders" /\ resp[p].status = 500
        /\ route[q] = "exportOrders" /\ resp[q].status = 500
        /\ files[ordersFilePath].kind = "corrupt"

\* Requests p and q appended to the same collection and were both answered
\* 201; q saved after p and nothing was written since.
BothAcknowledged(p, q) ==
    /\ p # q
    /\ route[p] \in AppendRoutes /\ route[q] = route[p]
    /\ resp[p].status = 201 /\ resp[q].status = 201
    /\ wrote[p] < wrote[q]
    /\ version[FileOf(route[q])] = wrote[q]

\* C10: when two appends to one collection load the same content before either
\* saves, both are answered 201 and the collection ends as the later saver's
\* array: the content they loaded plus one record, the other's append gone
\* (for signups with different emails, the first saver's email is not stored).
\* When the second loads what the first saved, both records are stored.
C10_LostUpdate ==
    \A p, q \in Procs :
        BothAcknowledged(p, q) =>
            LET stored == files[FileOf(route[q])] IN
            /\ seen[p] = seen[q] =>
                  /\ stored = JSONstringify(data[q])
                  /\ Len(stored.val) = Len(data[p])
                  /\ SubSeq(stored.val, 1, Len(stored.val) - 1)
                        = SubSeq(JSONstringify(data[p]).val, 1, Len(data[p]) - 1)
                  /\ ( route[p] = "signup"
                       /\ Get(body[p], "email") # Get(body[q], "email") )
                     => \A i \in 1..Len(stored.val) :
                            Get(stored.val[i], "email") # Get(body[p], "email")
            /\ seen[q] = wrote[p] =>
                  /\ Len(stored.val) = Len(data[p]) + 1
                  /\ stored.val[Len(data[p])] = resp[p].payload
                  /\ stored.val[Len(data[p]) + 1] = resp[q].payload

\* Two signups with different emails loaded the same content, both were
\* answered 201, and one record is stored.
C10_Witness ==
    \E p, q \in Procs :
        /\ BothAcknowledged(p, q)
        /\ seen[p] = seen[q]
        /\ route[p] = "signup"
        /\ Get(body[p], "email") # Get(body[q], "email")
        /\ Len(Customers.val) = 1

====
